---- MODULE Spec2Model ----
(***************************************************************************)
(* Model of utils/experiment_utils.py: the experiment loop                 *)
(* run_one_experiment (results artifacts, labels files, the global random  *)
(* generator) and the aggregation average_results_across_seeds.            *)
(***************************************************************************)
EXTENDS Integers, Sequences, FiniteSets, TLC

(* ---------------------------- bounds ----------------------------------- *)
\* longest score_function_list, seeds and methods argument that is drawn
MaxLen == 2
\* number of states of the modelled global random generator
RngMod == 3
\* largest n_totalcal / seed value used when comparing artifact paths
MaxNum == 11

\* most examples handed to remove_rare_classes
MaxExamples == 5

\* number of classes, i.e. of columns of the score matrix
NumClasses == 3

(* ------------------------- argument domains ---------------------------- *)
ValidDatasets == {"imagenet", "cifar-100", "places365", "inaturalist"}

ScoreFunctions == {"softmax", "APS", "RAPS"}

SamplingModes == {"random", "balanced"}

StandardMethods == {"standard", "exact_coverage_standard"}

ClasswiseMethods == {"classwise", "classwise_default_standard",
                     "regularized_classwise", "exact_coverage_classwise"}

ClusterMethods == {"cluster_proportional", "cluster_doubledip",
                   "cluster_random", "exact_coverage_cluster"}

MethodNames == StandardMethods \cup ClasswiseMethods \cup ClusterMethods

SeqsUpTo(S, n) == UNION {[1..m -> S] : m \in 0..n}

Range(s) == {s[x] : x \in DOMAIN s}

\* the empty dict {}
EmptyMap == <<>>

\* d[key] = val on a dict
Put(d, key, val) ==
    [x \in (DOMAIN d) \cup {key} |-> IF x = key THEN val ELSE d[x]]

(* ----------------------- formatting of the paths ----------------------- *)
Digit(d) == CASE d = 0 -> "0" [] d = 1 -> "1" [] d = 2 -> "2" [] d = 3 -> "3"
              [] d = 4 -> "4" [] d = 5 -> "5" [] d = 6 -> "6" [] d = 7 -> "7"
              [] d = 8 -> "8" [] d = 9 -> "9"

RECURSIVE ToStr(_)
\* f'{n}' of a non-negative integer
ToStr(n) == IF n < 10 THEN Digit(n) ELSE ToStr(n \div 10) \o Digit(n % 10)

\* os.path.join(save_folder, f'{dataset}/{calibration_sampling}_calset/n_totalcal={n_totalcal}/score={score_function}')
CurrFolder(save_folder, dataset, sampling, n, sf) ==
    save_folder \o "/" \o dataset \o "/" \o sampling \o "_calset/n_totalcal="
        \o ToStr(n) \o "/score=" \o sf

SaveTo_NoSeed(curr_folder, seed) == curr_folder \o "/allresults.pkl"

\* os.path.join(curr_folder, f'seed={seed}_allresults.pkl')
SaveTo(curr_folder, seed) ==
    curr_folder \o "/seed=" \o ToStr(seed) \o "_allresults.pkl"

\* os.path.join(curr_folder, f'seed={seed}_labels.npy')
SaveLabelsTo(curr_folder, seed) ==
    curr_folder \o "/seed=" \o ToStr(seed) \o "_labels.npy"

(* --------------------- the global random generator --------------------- *)
\* np.random.seed(s): the generator state is a function of s alone
SeedState(s) == s % RngMod

\* the value the next draw returns in state r
Draw(r) == r

\* the generator state after one draw
Advance(r) == (r + 1) % RngMod

(* --------------------- values handed between steps --------------------- *)
\* no draw was made for a value
NoDraw == 0 - 1

NullScores == [rule |-> "unset", dataset |-> "unset", u |-> NoDraw]

NullSplit == [sampling |-> "unset", n |-> 0, seed |-> 0, scores |-> NullScores]

NullCall == [fn |-> "unset", default_qhat |-> "unset", regularize |-> "unset",
             split |-> "unset", frac_clustering |-> "unset",
             num_clusters |-> "unset", exact_coverage |-> "unset",
             alpha |-> 0, data |-> NullSplit, u |-> NoDraw]

\* Python's None in a component of a results entry
None == [part |-> "None", by |-> NullCall]

\* scores_all = 1 - softmax_scores
InverseSoftmax(dataset) == [rule |-> "softmax", dataset |-> dataset, u |-> NoDraw]

\* get_APS_scores_all(softmax_scores, randomize=True), tie-broken with draw u
APSScores(dataset, u) == [rule |-> "APS", dataset |-> dataset, u |-> u]

\* get_RAPS_scores_all(softmax_scores, lmbda, kreg, randomize=True)
RAPSScores(dataset, u) == [rule |-> "RAPS", dataset |-> dataset, u |-> u]

\* random_split(scores_all, labels, n_totalcal, seed=seed)
RandomSplit(scores, n, seed) ==
    [sampling |-> "random", n |-> n, seed |-> seed, scores |-> scores]

\* split_X_and_y(scores_all, labels, n_totalcal, num_classes, seed=seed, split='balanced')
BalancedSplit(scores, n, seed) ==
    [sampling |-> "balanced", n |-> n, seed |-> seed, scores |-> scores]

\* the global generator after a splitter ran: seeded with the seed, then drawn from
RngAfterSplit(seed) == Advance(SeedState(seed))

\* the methods whose calibrator draws from the global generator
UsesRandomness(call) ==
    call.exact_coverage = "True" \/ call.fn = "clustered_conformal"

\* what a calibrator returns: (qhat(s), preds, coverage_metrics, set_size_metrics)
CalibratorResult(call) ==
    << [part |-> "qhat", by |-> call], [part |-> "preds", by |-> call],
       [part |-> "metrics", by |-> call], [part |-> "sizes", by |-> call] >>

MethodCall_DoubledipPasted(method, cluster_args) ==
    CASE method = "standard" ->
           [NullCall EXCEPT !.fn = "standard_conformal"]
      [] method = "classwise" ->
           [NullCall EXCEPT !.fn = "classwise_conformal", !.default_qhat = "inf",
                            !.regularize = "False"]
      [] method = "classwise_default_standard" ->
           [NullCall EXCEPT !.fn = "classwise_conformal",
                            !.default_qhat = "standard", !.regularize = "False"]
      [] method = "cluster_proportional" ->
           [NullCall EXCEPT !.fn = "clustered_conformal", !.split = "proportional"]
      [] method = "cluster_doubledip" ->
           [NullCall EXCEPT !.fn = "clustered_conformal", !.split = "proportional"]
      [] method = "cluster_random" ->
           [NullCall EXCEPT !.fn = "clustered_conformal", !.split = "random",
                            !.frac_clustering = cluster_args.frac_clustering,
                            !.num_clusters = cluster_args.num_clusters]
      [] method = "regularized_classwise" ->
           [NullCall EXCEPT !.fn = "classwise_conformal",
                            !.default_qhat = "standard", !.regularize = "True"]
      [] method = "exact_coverage_standard" ->
           [NullCall EXCEPT !.fn = "standard_conformal", !.exact_coverage = "True"]
      [] method = "exact_coverage_classwise" ->
           [NullCall EXCEPT !.fn = "classwise_conformal", !.default_qhat = "inf",
                            !.regularize = "False", !.exact_coverage = "True"]
      [] method = "exact_coverage_cluster" ->
           [NullCall EXCEPT !.fn = "clustered_conformal", !.split = "random",
                            !.frac_clustering = cluster_args.frac_clustering,
                            !.num_clusters = cluster_args.num_clusters,
                            !.exact_coverage = "True"]

\* the calibrator call that run_one_experiment makes for a method name
MethodCall(method, cluster_args) ==
    CASE method = "standard" ->
           [NullCall EXCEPT !.fn = "standard_conformal"]
      [] method = "classwise" ->
           [NullCall EXCEPT !.fn = "classwise_conformal", !.default_qhat = "inf",
                            !.regularize = "False"]
      [] method = "classwise_default_standard" ->
           [NullCall EXCEPT !.fn = "classwise_conformal",
                            !.default_qhat = "standard", !.regularize = "False"]
      [] method = "cluster_proportional" ->
           [NullCall EXCEPT !.fn = "clustered_conformal", !.split = "proportional"]
      [] method = "cluster_doubledip" ->
           [NullCall EXCEPT !.fn = "clustered_conformal", !.split = "doubledip"]
      [] method = "cluster_random" ->
           [NullCall EXCEPT !.fn = "clustered_conformal", !.split = "random",
                            !.frac_clustering = cluster_args.frac_clustering,
                            !.num_clusters = cluster_args.num_clusters]
      [] method = "regularized_classwise" ->
           [NullCall EXCEPT !.fn = "classwise_conformal",
                            !.default_qhat = "standard", !.regularize = "True"]
      [] method = "exact_coverage_standard" ->
           [NullCall EXCEPT !.fn = "standard_conformal", !.exact_coverage = "True"]
      [] method = "exact_coverage_classwise" ->
           [NullCall EXCEPT !.fn = "classwise_conformal", !.default_qhat = "inf",
                            !.regularize = "False", !.exact_coverage = "True"]
      [] method = "exact_coverage_cluster" ->
           [NullCall EXCEPT !.fn = "clustered_conformal", !.split = "random",
                            !.frac_clustering = cluster_args.frac_clustering,
                            !.num_clusters = cluster_args.num_clusters,
                            !.exact_coverage = "True"]

StripPreds_DropsMetrics(results) ==
    [m \in DOMAIN results |-> <<results[m][1], None, None, results[m][4]>>]

\* all_results[m] = (all_results[m][0], None, all_results[m][2], all_results[m][3]) for every key
StripPreds(results) ==
    [m \in DOMAIN results |-> <<results[m][1], None, results[m][3], results[m][4]>>]

\* the mapping that is pickled at the end of a seed
Persisted(results, save_preds) ==
    IF save_preds THEN results ELSE StripPreds(results)

InitialResults_AlwaysEmpty(files, path) == EmptyMap

\* all_results when a seed begins: pickle.load of the artifact if os.path.exists, else {}
InitialResults(files, path) ==
    IF path \in DOMAIN files THEN files[path] ELSE EmptyMap

(* ------------------------------- state --------------------------------- *)
VARIABLES
    args,           \* the arguments of the call of run_one_experiment
    pc,             \* position in run_one_experiment
    err,            \* message of the exception that ended the call, "" if none
    rng,            \* state of the global generator np.random
    fs,             \* results artifacts on disk: path -> pickled mapping
    labelFiles,     \* labels files on disk: path -> saved val_labels
    dirs,           \* folders created by os.makedirs
    softmax_scores, \* local: the loaded dataset
    scores_all,     \* local: the conformal scores of the current score function
    i,              \* index of the current score function
    j,              \* index of the current seed
    k,              \* index of the current method
    all_results,    \* local: the mapping being filled for the current seed
    split,          \* local: the calibration/validation split of the current seed
    fs0,            \* history: the artifacts when the call began
    fsIter,         \* history: the artifacts when the current seed began
    labelsIter,     \* history: the labels files when the current seed began
    loaded,         \* history: the mapping all_results started from for this seed
    returned,       \* history: method -> what its calibrator last returned for this seed
    log,            \* history: the steps of the call, in order
    faults,         \* environment: whether a splitter or calibrator call may raise
                    \* (too few examples, out of memory, an interrupt)
    callNo,         \* history: 1 for the call, 2 for its repetition
    first,          \* history: what the first of two identical calls left
    folder,         \* average_results_across_seeds: the *.pkl files of the folder
    avgArgs,        \* average_results_across_seeds: methods and max_seeds
    avgPc,          \* position in average_results_across_seeds
    file_names,     \* local: the sorted, possibly truncated list of files
    num_seeds,      \* local: len(file_names) as first computed
    metrics,        \* local: method -> metric name -> list of values
    fileIdx,        \* index of the file being read
    table,          \* the returned table, one row per method
    printed,        \* the 'Missing <method> in <file>' lines printed so far
    rarePc,         \* position in remove_rare_classes
    thresh,         \* remove_rare_classes: the argument thresh
    scores_in,      \* remove_rare_classes: the argument softmax_scores
    arrays,         \* the label arrays in memory: object -> contents
    labels,         \* local: the array object the name labels refers to
    labels_in,      \* history: the contents of the caller's array at the call
    non_rare_classes,    \* local: the kept classes, ascending
    remaining_label_idx, \* local: the boolean mask of the kept examples
    new_idx,        \* local: the next new class index
    mapping,        \* local: old class -> new class
    rareI,          \* index of the label being re-indexed
    new_softmax_scores,  \* the returned score matrix
    rareRet         \* the array object returned as labels, "none" before the return

runVars == <<args, pc, err, rng, fs, labelFiles, dirs, softmax_scores, scores_all,
             i, j, k, all_results, split, fs0, fsIter, labelsIter, loaded, returned,
             log, faults, callNo, first>>

avgVars == <<folder, avgArgs, avgPc, file_names, num_seeds, metrics, fileIdx, table,
             printed>>

rareVars == <<rarePc, thresh, scores_in, arrays, labels, labels_in, non_rare_classes,
              remaining_label_idx, new_idx, mapping, rareI, new_softmax_scores,
              rareRet>>

vars == <<runVars, avgVars, rareVars>>

\* the arguments fixed in every drawn call
SaveFolder == "out"

Alpha == 10

NTotalcal == 10

OldAlpha == 5

ClusterArgs == [frac_clustering |-> "auto", num_clusters |-> "auto"]

curr_folder ==
    CurrFolder(args.save_folder, args.dataset, args.calibration_sampling,
               args.n_totalcal, args.score_function_list[i])

save_to == SaveTo(curr_folder, args.seeds[j])

(* ----------------------- run_one_experiment ---------------------------- *)
Raise(msg) ==
    /\ pc' = "error"
    /\ err' = msg

SeededAtEntry_Skipped(r) == r

\* np.random.seed(0) at entry, whatever state r the generator was in
SeededAtEntry(r) == SeedState(0)

\* np.random.seed(0); softmax_scores, labels = load_dataset(dataset)
Enter ==
    /\ pc = "start"
    /\ rng' = SeededAtEntry(rng)
    /\ IF args.dataset \in ValidDatasets
       THEN /\ softmax_scores' = args.dataset
            /\ pc' = "score_loop"
            /\ err' = err
            /\ log' = Append(log, <<"load_dataset", args.dataset>>)
       ELSE /\ Raise("AssertionError")
            /\ UNCHANGED <<softmax_scores, log>>
    /\ UNCHANGED <<avgVars, rareVars, faults, callNo, first>>
    /\ UNCHANGED <<args, fs, labelFiles, dirs, scores_all, i, j, k, all_results,
                   split, fs0, fsIter, labelsIter, loaded, returned>>

\* one pass of "for score_function in score_function_list" up to the seed loop
ComputeScores ==
    /\ pc = "score_loop"
    /\ i <= Len(args.score_function_list)
    /\ dirs' = dirs \cup {curr_folder}
    /\ LET sf == args.score_function_list[i] IN
       CASE sf = "softmax" ->
              /\ scores_all' = InverseSoftmax(softmax_scores)
              /\ rng' = rng
              /\ pc' = "seed_loop" /\ err' = err
              /\ log' = Append(log, <<"scores", scores_all'>>)
         [] sf = "APS" ->
              /\ scores_all' = APSScores(softmax_scores, Draw(rng))
              /\ rng' = Advance(rng)
              /\ pc' = "seed_loop" /\ err' = err
              /\ log' = Append(log, <<"scores", scores_all'>>)
         [] sf = "RAPS" ->
              /\ scores_all' = RAPSScores(softmax_scores, Draw(rng))
              /\ rng' = Advance(rng)
              /\ pc' = "seed_loop" /\ err' = err
              /\ log' = Append(log, <<"scores", scores_all'>>)
         [] OTHER ->
              /\ Raise("Undefined score function")
              /\ UNCHANGED <<scores_all, rng, log>>
    /\ j' = 1
    /\ UNCHANGED <<avgVars, rareVars, faults, callNo, first>>
    /\ UNCHANGED <<args, fs, labelFiles, softmax_scores, i, k, all_results, split,
                   fs0, fsIter, labelsIter, loaded, returned>>

\* the score function loop is exhausted: the call returns
Return ==
    /\ pc = "score_loop"
    /\ i > Len(args.score_function_list)
    /\ pc' = "done"
    /\ UNCHANGED <<avgVars, rareVars, faults, callNo, first>>
    /\ UNCHANGED <<args, err, rng, fs, labelFiles, dirs, softmax_scores, scores_all,
                   i, j, k, all_results, split, fs0, fsIter, labelsIter, loaded,
                   returned, log>>

\* the head of "for seed in seeds": load the existing artifact or start empty
LoadResults ==
    /\ pc = "seed_loop"
    /\ j <= Len(args.seeds)
    /\ all_results' = InitialResults(fs, save_to)
    /\ log' = IF save_to \in DOMAIN fs THEN Append(log, <<"read", save_to>>) ELSE log
    /\ loaded' = all_results'
    /\ returned' = EmptyMap
    /\ fsIter' = fs
    /\ labelsIter' = labelFiles
    /\ pc' = "split"
    /\ UNCHANGED <<avgVars, rareVars, faults, callNo, first>>
    /\ UNCHANGED <<args, err, rng, fs, labelFiles, dirs, softmax_scores, scores_all,
                   i, j, k, split, fs0>>

\* the seed loop is exhausted: on to the next score function
NextScoreFunction ==
    /\ pc = "seed_loop"
    /\ j > Len(args.seeds)
    /\ i' = i + 1
    /\ pc' = "score_loop"
    /\ UNCHANGED <<avgVars, rareVars, faults, callNo, first>>
    /\ UNCHANGED <<args, err, rng, fs, labelFiles, dirs, softmax_scores, scores_all,
                   j, k, all_results, split, fs0, fsIter, labelsIter, loaded,
                   returned, log>>

\* "Split data": both splitters seed the generator with the iteration's seed
SplitData ==
    /\ pc = "split"
    /\ \/ /\ args.calibration_sampling = "random"
          /\ split' = RandomSplit(scores_all, args.n_totalcal, args.seeds[j])
          /\ rng' = RngAfterSplit(args.seeds[j])
          /\ pc' = "method_loop" /\ err' = err
          /\ log' = Append(log, <<"split", split'>>)
       \/ /\ args.calibration_sampling = "balanced"
          /\ split' = BalancedSplit(scores_all, args.n_totalcal, args.seeds[j])
          /\ rng' = RngAfterSplit(args.seeds[j])
          /\ pc' = "method_loop" /\ err' = err
          /\ log' = Append(log, <<"split", split'>>)
       \/ /\ args.calibration_sampling \in SamplingModes
          /\ faults
          /\ Raise("split failed")
          /\ UNCHANGED <<split, rng, log>>
       \/ /\ args.calibration_sampling \notin SamplingModes
          /\ Raise("Invalid calibration_sampling option")
          /\ UNCHANGED <<split, rng, log>>
    /\ k' = 1
    /\ UNCHANGED <<avgVars, rareVars, faults, callNo, first>>
    /\ UNCHANGED <<args, fs, labelFiles, dirs, softmax_scores, scores_all, i, j,
                   all_results, fs0, fsIter, labelsIter, loaded, returned>>

MethodsDone_SkipsLast == k >= Len(args.methods)

MethodsDone_AfterFirst == k > Len(args.methods) \/ k > 1

\* "for method in methods" has run out of methods
MethodsDone == k > Len(args.methods)

\* one pass of "for method in methods"
RunMethod ==
    /\ pc = "method_loop"
    /\ ~MethodsDone
    /\ LET method == args.methods[k] IN
       \/ /\ method \in MethodNames
          /\ LET c0 == [MethodCall(method, args.cluster_args) EXCEPT
                            !.alpha = args.alpha, !.data = split]
                 call == IF UsesRandomness(c0) THEN [c0 EXCEPT !.u = Draw(rng)] ELSE c0
             IN /\ all_results' = Put(all_results, method, CalibratorResult(call))
                /\ returned' = Put(returned, method, CalibratorResult(call))
                /\ rng' = IF UsesRandomness(c0) THEN Advance(rng) ELSE rng
                /\ log' = Append(log, <<"method", method>>)
          /\ k' = k + 1
          /\ UNCHANGED <<pc, err>>
       \/ /\ method \in MethodNames
          /\ faults
          /\ Raise("calibrator failed")
          /\ UNCHANGED <<all_results, returned, rng, log, k>>
       \/ /\ method \notin MethodNames
          /\ Raise("Invalid method selected")
          /\ UNCHANGED <<all_results, returned, rng, log, k>>
    /\ UNCHANGED <<avgVars, rareVars, faults, callNo, first>>
    /\ UNCHANGED <<args, fs, labelFiles, dirs, softmax_scores, scores_all, i, j,
                   split, fs0, fsIter, labelsIter, loaded>>

\* the tail of the seed loop: strip the predictions, save the labels, pickle the mapping
SaveResults ==
    /\ pc = "method_loop"
    /\ MethodsDone
    /\ all_results' = Persisted(all_results, args.save_preds)
    /\ labelFiles' = IF args.save_labels
                     THEN Put(labelFiles, SaveLabelsTo(curr_folder, args.seeds[j]), split)
                     ELSE labelFiles
    /\ fs' = Put(fs, save_to, all_results')
    /\ log' = Append(log, <<"write", save_to>>)
    /\ j' = j + 1
    /\ pc' = "seed_loop"
    /\ UNCHANGED <<avgVars, rareVars, faults, callNo, first>>
    /\ UNCHANGED <<args, err, rng, dirs, softmax_scores, scores_all, i, k, split,
                   fs0, fsIter, labelsIter, loaded, returned>>

(* --------------------------- initial states ---------------------------- *)
\* an entry an earlier call (with another alpha) left for a method of a combination
OldEntry(method, dataset, sampling, n, sf, seed, kept) ==
    LET scores == IF sf = "softmax" THEN InverseSoftmax(dataset)
                  ELSE [rule |-> sf, dataset |-> dataset, u |-> Draw(SeedState(0))]
        data == [sampling |-> sampling, n |-> n, seed |-> seed, scores |-> scores]
        c0 == [MethodCall(method, ClusterArgs) EXCEPT !.alpha = OldAlpha, !.data = data]
        call == IF UsesRandomness(c0)
                THEN [c0 EXCEPT !.u = Draw(Advance(SeedState(seed)))] ELSE c0
    IN  Persisted([m \in {method} |-> CalibratorResult(call)], kept)[method]

\* the artifacts earlier calls left: for the seeds in oldSeeds, every valid score
\* function has a mapping holding the methods oldMethods
OldArtifacts(a, oldSeeds, oldMethods, kept) ==
    LET combos == {<<sf, seed>> \in ScoreFunctions \X oldSeeds : TRUE}
        path(c) == SaveTo(CurrFolder(a.save_folder, a.dataset, a.calibration_sampling,
                                     a.n_totalcal, c[1]), c[2])
    IN  [p \in {path(c) : c \in combos} |->
            LET c == CHOOSE c \in combos : path(c) = p IN
            [m \in oldMethods |->
                OldEntry(m, a.dataset, a.calibration_sampling, a.n_totalcal,
                         c[1], c[2], kept)]]

NoFirst == [pc |-> "unset", err |-> "", fs |-> EmptyMap, labelFiles |-> EmptyMap,
            dirs |-> {}, log |-> <<>>]

\* average_results_across_seeds is not running
RareIdle ==
    /\ rarePc = "idle"
    /\ thresh = 0
    /\ scores_in = <<>>
    /\ arrays = EmptyMap
    /\ labels = "none"
    /\ labels_in = <<>>
    /\ non_rare_classes = <<>>
    /\ remaining_label_idx = <<>>
    /\ new_idx = 0
    /\ mapping = EmptyMap
    /\ rareI = 1
    /\ new_softmax_scores = <<>>
    /\ rareRet = "none"

AvgIdle ==
    /\ folder = EmptyMap
    /\ avgArgs = [methods |-> <<>>, max_seeds |-> 0]
    /\ avgPc = "idle"
    /\ file_names = <<>>
    /\ num_seeds = 0
    /\ metrics = EmptyMap
    /\ fileIdx = 1
    /\ table = <<>>
    /\ printed = {}

ArgsNone ==
    [dataset |-> "unset", save_folder |-> "unset", alpha |-> 0, n_totalcal |-> 0,
     score_function_list |-> <<>>, methods |-> <<>>, seeds |-> <<>>,
     cluster_args |-> ClusterArgs, save_preds |-> FALSE,
     calibration_sampling |-> "unset", save_labels |-> FALSE]

InitRun(a, files, r, mayFail) ==
    /\ AvgIdle
    /\ RareIdle
    /\ faults = mayFail
    /\ callNo = 1
    /\ first = NoFirst
    /\ args = a
    /\ pc = "start"
    /\ err = ""
    /\ rng = r
    /\ fs = files
    /\ labelFiles = EmptyMap
    /\ dirs = {}
    /\ softmax_scores = "unset"
    /\ scores_all = NullScores
    /\ i = 1
    /\ j = 1
    /\ k = 1
    /\ all_results = EmptyMap
    /\ split = NullSplit
    /\ fs0 = files
    /\ fsIter = files
    /\ labelsIter = EmptyMap
    /\ loaded = EmptyMap
    /\ returned = EmptyMap
    /\ log = <<>>

DatasetArgs == {"imagenet"}

SamplingArgs == {"random", "stratified"}

ScoreArgs == {"softmax", "APS"}

ConfigScoreArgs == {"softmax", "RAPS", "entropy"}

MethodArgs == {"standard", "kmeans"}

SeedArgs == {0, 1}

OldSeedSets == {{}, {0}}

OldMethodSets == {{"standard", "classwise"}}

ArgsOver(datasets, samplings, scoreLists, methodLists, seedLists) ==
    [dataset : datasets, save_folder : {SaveFolder}, alpha : {Alpha},
     n_totalcal : {NTotalcal}, score_function_list : scoreLists, methods : methodLists,
     seeds : seedLists, cluster_args : {ClusterArgs}, save_preds : BOOLEAN,
     calibration_sampling : samplings, save_labels : BOOLEAN]

Init ==
    \E a \in ArgsOver(DatasetArgs, SamplingArgs, SeqsUpTo(ScoreArgs, MaxLen),
                      SeqsUpTo(MethodArgs, MaxLen), SeqsUpTo(SeedArgs, MaxLen)) :
      \E oldSeeds \in OldSeedSets, oldMethods \in OldMethodSets :
        InitRun(a, OldArtifacts(a, oldSeeds, oldMethods, TRUE), 0, TRUE)

Next ==
    \/ Enter
    \/ ComputeScores
    \/ Return
    \/ LoadResults
    \/ NextScoreFunction
    \/ SplitData
    \/ RunMethod
    \/ SaveResults

Spec == Init /\ [][Next]_vars

\* calls whose score_function_list may name an unknown scoring rule
InitConfig ==
    \E a \in ArgsOver(DatasetArgs, SamplingModes, SeqsUpTo(ConfigScoreArgs, MaxLen),
                      SeqsUpTo(MethodArgs, MaxLen), SeqsUpTo(SeedArgs, MaxLen)) :
        InitRun(a, EmptyMap, 0, FALSE)

SpecConfig == InitConfig /\ [][Next]_vars

(* ------------------- every method name, one at a time ------------------ *)
DispatchMethodArgs == MethodNames \cup {"kmeans"}

ClusterArgSets == {ClusterArgs, [frac_clustering |-> "0.5", num_clusters |-> "10"]}

InitDispatch ==
    \E a \in ArgsOver(DatasetArgs, {"random"}, {<<"softmax">>},
                      SeqsUpTo(DispatchMethodArgs, MaxLen), {<<0>>}) :
      \E ca \in ClusterArgSets :
        /\ a.save_preds /\ ~a.save_labels
        /\ InitRun([a EXCEPT !.cluster_args = ca], EmptyMap, 0, FALSE)

SpecDispatch == InitDispatch /\ [][Next]_vars

(* -------------------- two identical calls in a row --------------------- *)
ReproScoreArgs == {"softmax", "RAPS"}

ReproMethodArgs == {"standard", "exact_coverage_cluster"}

\* the first call has ended: the artifacts are put back as they were, the global
\* generator is left in any state r, and the same call is made again
Rerun ==
    /\ callNo = 1
    /\ pc \in {"done", "error"}
    /\ first' = [pc |-> pc, err |-> err, fs |-> fs, labelFiles |-> labelFiles,
                 dirs |-> dirs, log |-> log]
    /\ callNo' = 2
    /\ \E r \in 0..(RngMod - 1) : rng' = r
    /\ pc' = "start"
    /\ err' = ""
    /\ fs' = fs0
    /\ labelFiles' = EmptyMap
    /\ dirs' = {}
    /\ softmax_scores' = "unset"
    /\ scores_all' = NullScores
    /\ i' = 1
    /\ j' = 1
    /\ k' = 1
    /\ all_results' = EmptyMap
    /\ split' = NullSplit
    /\ fsIter' = fs0
    /\ labelsIter' = EmptyMap
    /\ loaded' = EmptyMap
    /\ returned' = EmptyMap
    /\ log' = <<>>
    /\ UNCHANGED <<avgVars, rareVars, args, fs0, faults>>

InitRepro ==
    \E a \in ArgsOver(DatasetArgs, SamplingModes, SeqsUpTo(ReproScoreArgs, MaxLen),
                      SeqsUpTo(ReproMethodArgs, MaxLen), SeqsUpTo(SeedArgs, MaxLen)) :
      \E r \in 0..(RngMod - 1) :
        /\ a.save_preds /\ a.save_labels
        /\ InitRun(a, OldArtifacts(a, {0}, {"classwise"}, TRUE), r, FALSE)

NextRepro ==
    \/ Enter
    \/ ComputeScores
    \/ Return
    \/ LoadResults
    \/ NextScoreFunction
    \/ SplitData
    \/ RunMethod
    \/ SaveResults
    \/ Rerun

SpecRepro == InitRepro /\ [][NextRepro]_vars

(* -------------------- average_results_across_seeds --------------------- *)
\* max_seeds=np.inf
Infinity == 0 - 1

\* the character after the seed in 'seed=<n>_allresults.pkl': '_' sorts after every digit
Underscore == 10

RECURSIVE DigitsOf(_)
DigitsOf(n) == IF n < 10 THEN <<n>> ELSE Append(DigitsOf(n \div 10), n % 10)

\* the characters by which the names of two result files of a folder differ
NameKey(seed) == Append(DigitsOf(seed), Underscore)

RECURSIVE LexLess(_, _)
\* string comparison, character by character
LexLess(a, b) ==
    IF a = <<>> THEN b # <<>>
    ELSE IF b = <<>> THEN FALSE
    ELSE IF Head(a) # Head(b) THEN Head(a) < Head(b)
    ELSE LexLess(Tail(a), Tail(b))

RECURSIVE SortedNames(_)
\* sorted(glob.glob(os.path.join(folder, '*.pkl'))), files named by their seed
SortedNames(S) ==
    IF S = {} THEN <<>>
    ELSE LET least == CHOOSE a \in S :
                          \A b \in S \ {a} : LexLess(NameKey(a), NameKey(b))
         IN  <<least>> \o SortedNames(S \ {least})

\* file_names[:max_seeds] when max_seeds < np.inf and num_seeds > max_seeds
UsedFiles(names, max_seeds) ==
    IF max_seeds # Infinity /\ Len(names) > max_seeds
    THEN SubSeq(names, 1, max_seeds)
    ELSE names

\* the statements of the try block, in order: the list appended to, the
\* component of the entry that is indexed, the key read from it
Reads == << <<"class_cov_gap", 2, "mean_class_cov_gap">>,
            <<"avg_set_size", 3, "mean">>,
            <<"max_class_cov_gap", 2, "max_gap">>,
            <<"marginal_cov", 2, "marginal_cov">>,
            <<"very_undercovered", 2, "very_undercovered">> >>

MetricNames == {Reads[r][1] : r \in DOMAIN Reads}

\* initialize_metrics_dict(methods)
initialize_metrics_dict(methods) ==
    [m \in Range(methods) |-> [name \in MetricNames |-> <<>>]]

\* results[method][c][key] can be read
CanRead(results, method, r) ==
    /\ method \in DOMAIN results
    /\ Reads[r][3] \in (IF Reads[r][2] = 2 THEN results[method].metrics
                        ELSE results[method].sizes)

\* the number of appends of the try block that run before one raises
AppendsDone(results, method) ==
    Cardinality({r \in DOMAIN Reads : \A q \in 1..r : CanRead(results, method, q)})

\* the try block for one method of one file
TryAppend(mt, results, method, file) ==
    [mt EXCEPT ![method] =
        [name \in MetricNames |->
            LET r == CHOOSE q \in DOMAIN Reads : Reads[q][1] = name
            IN  IF r <= AppendsDone(results, method)
                THEN Append(mt[method][name], [file |-> file, key |-> Reads[r][3]])
                ELSE mt[method][name]]]

RECURSIVE ReadFile(_, _, _, _)
\* "for method in methods" on one loaded file, from the n-th method on
ReadFile(mt, results, file, todo) ==
    IF todo = <<>> THEN mt
    ELSE ReadFile(TryAppend(mt, results, Head(todo), file), results, file, Tail(todo))

\* glob and sort the files, keep max_seeds of them, initialize the metric lists
AvgStart ==
    /\ avgPc = "start"
    /\ num_seeds' = Len(SortedNames(DOMAIN folder))
    /\ file_names' = UsedFiles(SortedNames(DOMAIN folder), avgArgs.max_seeds)
    /\ metrics' = initialize_metrics_dict(avgArgs.methods)
    /\ fileIdx' = 1
    /\ avgPc' = "read"
    /\ UNCHANGED <<runVars, rareVars, folder, avgArgs, table, printed>>

\* one pass of "for pth in file_names"
AvgReadFile ==
    /\ avgPc = "read"
    /\ fileIdx <= Len(file_names)
    /\ LET pth == file_names[fileIdx]
           results == folder[pth]
       IN  /\ metrics' = ReadFile(metrics, results, pth, avgArgs.methods)
           /\ printed' = printed \cup
                 {<<m, pth>> : m \in {x \in Range(avgArgs.methods) :
                                        AppendsDone(results, x) < Len(Reads)}}
    /\ fileIdx' = fileIdx + 1
    /\ UNCHANGED <<runVars, rareVars, folder, avgArgs, avgPc, file_names, num_seeds, table>>

\* the means and standard errors of every method: each mean is np.mean of a list,
\* each standard error np.std of that list over np.sqrt(n), n = num_seeds
AvgSummarize ==
    /\ avgPc = "read"
    /\ fileIdx > Len(file_names)
    /\ table' = [r \in DOMAIN avgArgs.methods |->
                    [method |-> avgArgs.methods[r],
                     n |-> num_seeds,
                     lists |-> metrics[avgArgs.methods[r]]]]
    /\ avgPc' = "done"
    /\ UNCHANGED <<runVars, rareVars, folder, avgArgs, file_names, num_seeds, metrics, fileIdx,
                   printed>>

\* the entries a results file may hold for a method
FullEntry == [metrics |-> {"mean_class_cov_gap", "max_gap", "marginal_cov",
                           "very_undercovered"},
              sizes |-> {"mean"}]

OlderEntry == [FullEntry EXCEPT !.metrics = @ \ {"very_undercovered"}]

NoSizeEntry == [FullEntry EXCEPT !.sizes = {}]

FileSeeds == {1, 2, 10}

\* every file holds 'standard'; 'classwise' may be absent or lack a field
FileContents ==
    {[m \in {"standard"} |-> FullEntry]} \cup
    {[m \in {"standard", "classwise"} |-> IF m = "standard" THEN FullEntry ELSE e] :
        e \in {FullEntry, OlderEntry, NoSizeEntry}}

\* run_one_experiment is not running
RunIdle ==
    /\ faults = FALSE
    /\ callNo = 1
    /\ first = NoFirst
    /\ args = ArgsNone
    /\ pc = "idle"
    /\ err = ""
    /\ rng = 0
    /\ fs = EmptyMap
    /\ labelFiles = EmptyMap
    /\ dirs = {}
    /\ softmax_scores = "unset"
    /\ scores_all = NullScores
    /\ i = 1
    /\ j = 1
    /\ k = 1
    /\ all_results = EmptyMap
    /\ split = NullSplit
    /\ fs0 = EmptyMap
    /\ fsIter = EmptyMap
    /\ labelsIter = EmptyMap
    /\ loaded = EmptyMap
    /\ returned = EmptyMap
    /\ log = <<>>

InitAvg ==
    /\ RunIdle
    /\ RareIdle
    /\ \E present \in SUBSET FileSeeds : folder \in [present -> FileContents]
    /\ avgArgs \in [methods : {<<"standard", "classwise">>, <<"classwise">>},
                     max_seeds : {1, 2, Infinity}]
    /\ avgPc = "start"
    /\ file_names = <<>>
    /\ num_seeds = 0
    /\ metrics = EmptyMap
    /\ fileIdx = 1
    /\ table = <<>>
    /\ printed = {}

NextAvg ==
    \/ AvgStart
    \/ AvgReadFile
    \/ AvgSummarize

SpecAvg == InitAvg /\ [][NextAvg]_vars

(* ------------------------- remove_rare_classes ------------------------- *)
\* an entry of the score matrix that np.zeros created and nothing overwrote
Zero == <<0, 0>>

\* the score matrix of n examples: the entry of row r and column c is named by
\* its place, so that the place an output entry came from can be read off it
ScoreMatrix(n) == [r \in 1..n |-> [c \in 1..NumClasses |-> <<r, c - 1>>]]

Count(c, a) == Cardinality({x \in DOMAIN a : a[x] = c})

RECURSIVE Ascending(_)
Ascending(S) ==
    IF S = {} THEN <<>>
    ELSE LET least == CHOOSE x \in S : \A y \in S : x <= y
         IN <<least>> \o Ascending(S \ {least})

\* classes, cts = np.unique(labels, return_counts=True); classes[cts >= thresh]
NonRareClasses(a, t) ==
    SelectSeq(Ascending(Range(a)), LAMBDA c : Count(c, a) >= t)

\* np.isin(labels, non_rare_classes)
IsIn(a, classes) == [x \in DOMAIN a |-> a[x] \in Range(classes)]

\* a[mask] for a boolean mask: a new array of the selected elements, in order
MaskIndex(a, mask) ==
    LET picked == SelectSeq([x \in 1..Len(a) |-> x], LAMBDA x : mask[x])
    IN [y \in 1..Len(picked) |-> a[picked[y]]]

PlaceColumns_InClassOrder(new, scores, ks, map) ==
    [r \in DOMAIN new |-> [c \in DOMAIN new[r] |-> scores[r][ks[c] + 1]]]

\* for k in non_rare_classes: new_softmax_scores[:, mapping[k]] = softmax_scores[:, k]
\* (a column assigned twice keeps the last assignment)
PlaceColumns(new, scores, ks, map) ==
    [r \in DOMAIN new |->
       [c \in DOMAIN new[r] |->
          LET hits == {x \in DOMAIN ks : map[ks[x]] + 1 = c}
          IN IF hits = {} THEN new[r][c]
             ELSE scores[r][ks[CHOOSE x \in hits : \A y \in hits : y <= x] + 1]]]

\* every entry divided by the sum of its row
Renormalize(m) ==
    [r \in DOMAIN m |-> [c \in DOMAIN m[r] |-> [val |-> m[r][c], sum |-> m[r]]]]

\* lines 26-34: the kept classes, the mask, the filtered copy of labels
RareFilter ==
    /\ rarePc = "start"
    /\ non_rare_classes' = NonRareClasses(arrays[labels], thresh)
    /\ remaining_label_idx' = IsIn(arrays[labels], non_rare_classes')
    /\ arrays' = Put(arrays, "filtered", MaskIndex(arrays[labels], remaining_label_idx'))
    /\ labels' = "filtered"
    /\ new_idx' = 0
    /\ mapping' = EmptyMap
    /\ rareI' = 1
    /\ rarePc' = "reindex"
    /\ UNCHANGED <<runVars, avgVars, thresh, scores_in, labels_in, new_softmax_scores,
                   rareRet>>

\* lines 35-39: one pass of the loop over the filtered labels
RareReindex ==
    /\ rarePc = "reindex"
    /\ rareI <= Len(arrays[labels])
    /\ LET label == arrays[labels][rareI] IN
         /\ mapping' = IF label \in DOMAIN mapping THEN mapping
                        ELSE Put(mapping, label, new_idx)
         /\ new_idx' = IF label \in DOMAIN mapping THEN new_idx ELSE new_idx + 1
         /\ arrays' = [arrays EXCEPT ![labels][rareI] = mapping'[label]]
    /\ rareI' = rareI + 1
    /\ UNCHANGED <<runVars, avgVars, rarePc, thresh, scores_in, labels, labels_in,
                   non_rare_classes, remaining_label_idx, new_softmax_scores, rareRet>>

\* lines 41-50: the rows and columns of the kept classes, renormalized; the return
RareReturn ==
    /\ rarePc = "reindex"
    /\ rareI > Len(arrays[labels])
    /\ LET rows == MaskIndex(scores_in, remaining_label_idx)
           zeros == [r \in 1..Len(arrays[labels]) |->
                       [c \in 1..Len(non_rare_classes) |-> Zero]]
       IN new_softmax_scores' =
              Renormalize(PlaceColumns(zeros, rows, non_rare_classes, mapping))
    /\ rareRet' = labels
    /\ rarePc' = "returned"
    /\ UNCHANGED <<runVars, avgVars, thresh, scores_in, arrays, labels, labels_in,
                   non_rare_classes, remaining_label_idx, new_idx, mapping, rareI>>

ThreshArgs == {1, 2, 3}

InitRare ==
    /\ RunIdle
    /\ AvgIdle
    /\ rarePc = "start"
    /\ thresh \in ThreshArgs
    /\ labels_in \in SeqsUpTo(0..(NumClasses - 1), MaxExamples)
    /\ scores_in = ScoreMatrix(Len(labels_in))
    /\ arrays = [a \in {"arg"} |-> labels_in]
    /\ labels = "arg"
    /\ non_rare_classes = <<>>
    /\ remaining_label_idx = <<>>
    /\ new_idx = 0
    /\ mapping = EmptyMap
    /\ rareI = 1
    /\ new_softmax_scores = <<>>
    /\ rareRet = "none"

NextRare ==
    \/ RareFilter
    \/ RareReindex
    \/ RareReturn

SpecRare == InitRare /\ [][NextRare]_vars

(* ------------------------------ properties ----------------------------- *)
\* the seed whose mapping was just pickled, and its path
JustSaved == pc = "seed_loop" /\ j > 1

LastSaved == SaveTo(curr_folder, args.seeds[j - 1])

\* a call in which the split or a method raised
FailedInSeed ==
    /\ pc = "error"
    /\ err \in {"split failed", "Invalid calibration_sampling option",
                "calibrator failed", "Invalid method selected"}

NoDuplicates(s) == \A a, b \in DOMAIN s : s[a] = s[b] => a = b

Writes == {n \in DOMAIN log : log[n][1] = "write"}

\* the path of the combination a calibrator call was made for
PathOfCall(call) ==
    SaveTo(CurrFolder(SaveFolder, call.data.scores.dataset, call.data.sampling,
                      call.data.n, call.data.scores.rule), call.data.seed)

\* C1: the mapping written at the end of a seed starts from the loaded artifact
\* (from {} only when none exists); its keys are the loaded keys and the methods,
\* and every method holds what its calibrator returned in this run
C1_MergeWithLoaded ==
    /\ pc \in {"split", "method_loop"} =>
          /\ save_to \in DOMAIN fsIter => loaded = fsIter[save_to]
          /\ save_to \notin DOMAIN fsIter => loaded = EmptyMap
    /\ JustSaved =>
          /\ LastSaved \in DOMAIN fsIter => loaded = fsIter[LastSaved]
          /\ LastSaved \notin DOMAIN fsIter => loaded = EmptyMap
          /\ DOMAIN fs[LastSaved] = (DOMAIN loaded) \cup Range(args.methods)
          /\ \A m \in Range(args.methods) :
                /\ fs[LastSaved][m][1] = returned[m][1]
                /\ fs[LastSaved][m][2] \in {returned[m][2], None}
                /\ fs[LastSaved][m][3] = returned[m][3]
                /\ fs[LastSaved][m][4] = returned[m][4]

C1_Witness ==
    /\ JustSaved
    /\ LastSaved \in DOMAIN fsIter
    /\ Range(args.methods) \cap DOMAIN loaded # {}
    /\ DOMAIN loaded \ Range(args.methods) # {}

\* C2 as claimed: an entry that was loaded and is not re-run is persisted
\* unchanged in all four components, whatever save_preds is
C2_PriorEntriesIdentical ==
    JustSaved =>
        \A m \in (DOMAIN loaded) \ Range(args.methods) : fs[LastSaved][m] = loaded[m]

\* C3: save_preds decides the second component only: kept for the methods of this
\* run when true, None in every entry when false; components 0, 2 and 3 are the
\* calibrator's (of this run for a method of this run, as loaded otherwise)
C3_SavePredsSecondOnly ==
    JustSaved =>
        /\ args.save_preds =>
              \A m \in Range(args.methods) :
                  fs[LastSaved][m][2] = returned[m][2] /\ returned[m][2] # None
        /\ ~args.save_preds => \A m \in DOMAIN fs[LastSaved] : fs[LastSaved][m][2] = None
        /\ \A m \in DOMAIN fs[LastSaved] :
              LET from == IF m \in Range(args.methods) THEN returned[m] ELSE loaded[m]
              IN  /\ fs[LastSaved][m][1] = from[1]
                  /\ fs[LastSaved][m][3] = from[3]
                  /\ fs[LastSaved][m][4] = from[4]
                  /\ fs[LastSaved][m][1].part = "qhat"
                  /\ fs[LastSaved][m][3].part = "metrics"
                  /\ fs[LastSaved][m][4].part = "sizes"

C3_Witness ==
    /\ JustSaved
    /\ ~args.save_preds
    /\ args.methods # <<>>
    /\ \E m \in DOMAIN loaded : loaded[m][2] # None

\* C4 as claimed: a call whose score_function_list names an unknown rule ends
\* with 'Undefined score function' and has written no artifact and no labels file
C4_UnknownScoreWritesNothing ==
    (\E n \in DOMAIN args.score_function_list :
          args.score_function_list[n] \notin ScoreFunctions) =>
        /\ fs = fs0
        /\ labelFiles = EmptyMap
        /\ pc # "done"
        /\ pc = "error" => err = "Undefined score function"

\* C5 as claimed: a call with an unknown method name or an unknown
\* calibration_sampling never returns normally
C5_UnknownNameNeverReturns ==
    pc = "done" =>
        /\ Range(args.methods) \subseteq MethodNames
        /\ args.calibration_sampling \in SamplingModes

\* a results file holds everything the try block reads for a method
Complete(results, method) == AppendsDone(results, method) = Len(Reads)

\* C6 as claimed: a file in which a method is missing (its key, or one of the
\* five fields read) is reported and leaves no value in any of the five lists
\* of that method, so the five lists of a method have equal length
C6_MissingContributesNothing ==
    \A m \in DOMAIN metrics :
        /\ \A a, b \in MetricNames : Len(metrics[m][a]) = Len(metrics[m][b])
        /\ \A a \in MetricNames : \A n \in DOMAIN metrics[m][a] :
              Complete(folder[metrics[m][a][n].file], m)
        /\ \A n \in 1..(fileIdx - 1) :
              ~Complete(folder[file_names[n]], m) => <<m, file_names[n]>> \in printed

\* C7 as claimed: when more files are found than max_seeds, the first max_seeds
\* files in sorted order are read and every statistic, the n of the standard
\* errors included, is based on the files used
C7_CountIsFilesUsed ==
    avgPc = "done" =>
        /\ file_names = UsedFiles(SortedNames(DOMAIN folder), avgArgs.max_seeds)
        /\ \A r \in DOMAIN table :
              /\ table[r].n = Len(file_names)
              /\ \A a \in MetricNames : \A n \in DOMAIN table[r].lists[a] :
                    table[r].lists[a][n].file \in Range(file_names)

\* C8: a call repeated with the same arguments, dataset and artifacts computes the
\* same score matrices and splits and leaves the same artifacts and labels files,
\* whatever state the global generator was in before either call
C8_Reproducible ==
    (callNo = 2 /\ pc \in {"done", "error"}) =>
        /\ pc = first.pc
        /\ err = first.err
        /\ log = first.log
        /\ fs = first.fs
        /\ labelFiles = first.labelFiles

C8_Witness ==
    /\ callNo = 2
    /\ pc = "done"
    /\ \E n \in DOMAIN log : log[n][1] = "scores" /\ log[n][2].rule = "RAPS"
    /\ \E n \in DOMAIN log : log[n][1] = "method" /\ log[n][2] = "exact_coverage_cluster"
    /\ Cardinality(Writes) >= 2

\* the (dataset, calibration-sampling, n_totalcal, score function, seed) combinations
\* whose paths are compared
NumArgs == {0, 1, MaxNum - 1, MaxNum}

Combinations == ValidDatasets \X SamplingModes \X NumArgs \X ScoreFunctions \X NumArgs

PathOf(c) == SaveTo(CurrFolder(SaveFolder, c[1], c[2], c[3], c[4]), c[5])

PathsDistinct == \A c, d \in Combinations : PathOf(c) = PathOf(d) => c = d

\* C9: distinct combinations have distinct paths; every artifact holds only
\* results computed for the combination of its path; a call that returns, with
\* duplicate-free score functions and seeds, writes one artifact per
\* (score function, seed) pair
C9_OneArtifactPerCombination ==
    /\ PathsDistinct
    /\ \A p \in DOMAIN fs : \A m \in DOMAIN fs[p] :
          /\ PathOfCall(fs[p][m][1].by) = p
          /\ \A c \in 2..4 : fs[p][m][c] # None => fs[p][m][c].by = fs[p][m][1].by
    /\ (/\ pc = "done"
        /\ NoDuplicates(args.score_function_list)
        /\ NoDuplicates(args.seeds)) =>
          /\ Cardinality(Writes) = Len(args.score_function_list) * Len(args.seeds)
          /\ Cardinality({log[n][2] : n \in Writes}) = Cardinality(Writes)
          /\ {log[n][2] : n \in Writes} =
                {SaveTo(CurrFolder(args.save_folder, args.dataset,
                                   args.calibration_sampling, args.n_totalcal, sf), seed) :
                   sf \in Range(args.score_function_list), seed \in Range(args.seeds)}
          /\ {log[n][2] : n \in Writes} \subseteq DOMAIN fs

C9_Witness ==
    /\ pc = "done"
    /\ Len(args.score_function_list) = 2 /\ NoDuplicates(args.score_function_list)
    /\ Len(args.seeds) = 2 /\ NoDuplicates(args.seeds)
    /\ args.methods # <<>>
    /\ fs0 # EmptyMap

\* C10 as claimed: when the split or a method raises, the artifact of that pair
\* is what it was before the call and no labels file of that seed exists
C10_FailureLeavesPreCallArtifact ==
    FailedInSeed =>
        /\ save_to \in DOMAIN fs <=> save_to \in DOMAIN fs0
        /\ save_to \in DOMAIN fs => fs[save_to] = fs0[save_to]
        /\ SaveLabelsTo(curr_folder, args.seeds[j]) \notin DOMAIN labelFiles

\* C10: nothing is written between the load of a seed and the return of its
\* last method; when the split or a method raises, the artifacts and labels
\* files are what they were when that seed began, and the call has stopped
C10_FailureLeavesSeedStartArtifact ==
    /\ pc \in {"split", "method_loop"} => fs = fsIter /\ labelFiles = labelsIter
    /\ JustSaved => Range(args.methods) \subseteq DOMAIN returned
    /\ FailedInSeed =>
          /\ fs = fsIter
          /\ labelFiles = labelsIter
          /\ ~ENABLED Next

C10_Witness ==
    /\ FailedInSeed
    /\ err = "calibrator failed"
    /\ k = 2
    /\ j = 2
    /\ args.save_labels
    /\ save_to \in DOMAIN fs0

\* the arguments a calibrator call was made with, besides the data and alpha
Config(call) ==
    <<call.fn, call.default_qhat, call.regularize, call.split,
      call.frac_clustering, call.num_clusters, call.exact_coverage>>

ExactCoverageNames ==
    {"exact_coverage_standard", "exact_coverage_classwise", "exact_coverage_cluster"}

\* the configuration the claim names for a method
NamedConfig(m, ca) ==
    LET exact == IF m \in ExactCoverageNames THEN "True" ELSE "unset" IN
    CASE m \in {"standard", "exact_coverage_standard"} ->
           <<"standard_conformal", "unset", "unset", "unset", "unset", "unset", exact>>
      [] m \in {"classwise", "exact_coverage_classwise"} ->
           <<"classwise_conformal", "inf", "False", "unset", "unset", "unset", exact>>
      [] m = "classwise_default_standard" ->
           <<"classwise_conformal", "standard", "False", "unset", "unset", "unset", exact>>
      [] m = "regularized_classwise" ->
           <<"classwise_conformal", "standard", "True", "unset", "unset", "unset", exact>>
      [] m = "cluster_proportional" ->
           <<"clustered_conformal", "unset", "unset", "proportional", "unset", "unset", exact>>
      [] m = "cluster_doubledip" ->
           <<"clustered_conformal", "unset", "unset", "doubledip", "unset", "unset", exact>>
      [] m \in {"cluster_random", "exact_coverage_cluster"} ->
           <<"clustered_conformal", "unset", "unset", "random",
             ca.frac_clustering, ca.num_clusters, exact>>

TenMethodNames ==
    {"standard", "classwise", "classwise_default_standard", "cluster_proportional",
     "cluster_doubledip", "cluster_random", "regularized_classwise",
     "exact_coverage_standard", "exact_coverage_classwise", "exact_coverage_cluster"}

KeptClasses ==
    {c \in Range(labels_in) :
        Cardinality({x \in DOMAIN labels_in : labels_in[x] = c}) >= thresh}

\* the places, in the caller's labels, of the examples of the kept classes
KeptExamples ==
    SelectSeq([x \in 1..Len(labels_in) |-> x], LAMBDA x : labels_in[x] \in KeptClasses)

\* C12: remove_rare_classes returns the examples of the classes with at least
\* thresh examples, in their order; the mapping is a bijection from the kept
\* classes onto 0..K-1 and every returned label is the image of the example's
\* class; the returned matrix has one row per kept example and K columns, and
\* column mapping[k] comes from column k of the example's own row; the caller's
\* label array is never written
C12_KeepsAndReindexes ==
    /\ arrays["arg"] = labels_in
    /\ rarePc = "returned" =>
         LET out == arrays[rareRet]
             K == Cardinality(KeptClasses)
         IN /\ DOMAIN out = DOMAIN KeptExamples
            /\ \A r \in DOMAIN out : out[r] \in 0..(K - 1)
            /\ DOMAIN mapping = KeptClasses
            /\ {mapping[c] : c \in KeptClasses} = 0..(K - 1)
            /\ \A r \in DOMAIN out : out[r] = mapping[labels_in[KeptExamples[r]]]
            /\ DOMAIN new_softmax_scores = DOMAIN KeptExamples
            /\ \A r \in DOMAIN new_softmax_scores :
                  /\ DOMAIN new_softmax_scores[r] = 1..K
                  /\ \A c \in KeptClasses :
                        new_softmax_scores[r][mapping[c] + 1].val = <<KeptExamples[r], c>>
                  /\ new_softmax_scores[r][out[r] + 1].val =
                        <<KeptExamples[r], labels_in[KeptExamples[r]]>>

C12_Witness ==
    /\ rarePc = "returned"
    /\ labels_in = <<2, 0, 1, 0, 2>>
    /\ thresh = 2
    /\ arrays[rareRet] = <<0, 1, 1, 0>>
    /\ arrays["arg"] = <<2, 0, 1, 0, 2>>
    /\ Len(new_softmax_scores[1]) = 2

RECURSIVE Flatten(_)
Flatten(ss) == IF ss = <<>> THEN <<>> ELSE Head(ss) \o Flatten(Tail(ss))

\* a logged step without the computed value: which step, and for what
Step(e) ==
    CASE e[1] = "scores" -> <<"scores", e[2].rule>>
      [] e[1] = "split" -> <<"split", e[2].scores.rule, e[2].seed>>
      [] OTHER -> e

\* the steps of a whole call, as stated: the dataset, then per pass of the score
\* function loop the scores and, per pass of the seed loop, the read when the
\* artifact exists as the pass begins (it was there at the call, or an earlier
\* pass of this call had the same score function and seed), the split, the methods in list order, the write
Lifecycle ==
    LET sfs == args.score_function_list
        WrittenBefore(a, b) ==
            \E c \in 1..a, d \in DOMAIN args.seeds :
               /\ c < a \/ d < b
               /\ sfs[c] = sfs[a]
               /\ args.seeds[d] = args.seeds[b]
        methodSteps == [m \in DOMAIN args.methods |-> <<"method", args.methods[m]>>]
        SeedPass(a, b) ==
            LET path == SaveTo(CurrFolder(SaveFolder, args.dataset,
                                          args.calibration_sampling, args.n_totalcal,
                                          sfs[a]), args.seeds[b])
            IN (IF path \in DOMAIN fs0 \/ WrittenBefore(a, b)
                THEN <<(<<"read", path>>)>> ELSE <<>>)
               \o <<(<<"split", sfs[a], args.seeds[b]>>)>>
               \o methodSteps
               \o <<(<<"write", path>>)>>
        ScorePass(a) ==
            <<(<<"scores", sfs[a]>>)>>
            \o Flatten([b \in DOMAIN args.seeds |-> SeedPass(a, b)])
    IN <<(<<"load_dataset", args.dataset>>)>>
       \o Flatten([a \in DOMAIN sfs |-> ScorePass(a)])

Steps == [n \in DOMAIN log |-> Step(log[n])]

\* C13: the steps a call has taken are always the beginning of the stated
\* lifecycle (load once; per score function the scores once; per seed the read
\* if the artifact is present, one split, every method once in list order, one
\* write), a returned call has taken all of it, and every method of a pass was
\* computed on the split of that pass
C13_LifecycleInOrder ==
    /\ LET stated == Lifecycle
           taken == Steps
       IN /\ Len(taken) <= Len(stated)
          /\ taken = SubSeq(stated, 1, Len(taken))
          /\ pc = "done" => taken = stated
    /\ pc = "method_loop" =>
         /\ LET n == CHOOSE x \in DOMAIN log :
                        /\ log[x][1] = "split"
                        /\ \A y \in DOMAIN log : log[y][1] = "split" => y <= x
            IN /\ log[n][2] = split
               /\ Len(log) = n + k - 1
               /\ \A m \in 1..(k - 1) : log[n + m] = <<"method", args.methods[m]>>
         /\ \A m \in 1..(k - 1) :
               /\ args.methods[m] \in DOMAIN returned
               /\ returned[args.methods[m]][1].by.data = split
         /\ split.scores = scores_all

C13_Witness ==
    /\ pc = "done"
    /\ Len(args.score_function_list) = 2
    /\ Len(args.seeds) = 2
    /\ args.methods = <<"standard", "standard">>
    /\ \E n \in DOMAIN log : log[n][1] = "read"
    /\ Cardinality(Writes) = 4
====
